---- MODULE Spec2Model ----
(***************************************************************************)
(* Web_Extractor: the extraction engine of src/extractor.py and the        *)
(* request boundary of src/main.py.                                        *)
(*                                                                         *)
(* Conventions of the model                                                *)
(*   - a Python str is a sequence of one-character strings; a character    *)
(*     outside ASCII is named by its code point ("U+20AC");                *)
(*   - an Optional value is a sequence of at most one element: None is     *)
(*     <<>> and a present value v is <<v>>;                                *)
(*   - a parsed document is the sequence of its elements in document       *)
(*     order; an HTML string is modelled by the document it parses to, and *)
(*     the empty string by the document with no element;                   *)
(*   - a dict is a function from its keys to its values.                   *)
(***************************************************************************)
EXTENDS Integers, Sequences, FiniteSets, TLC

VARIABLES
    \* src/extractor.py fetch_html
    net, fpc, attempts, slept, fout,
    \* src/main.py extract
    req, html, pc, response, fetchCalls, responses,
    \* src/extractor.py extract_from_html
    lxml, doc, mapping, epc, selected, record,
    \* src/extractor.py llm_infer_selectors
    sdk, apiKey, envModel, opc, tried, errors, oout

vars == <<net, fpc, attempts, slept, fout,
          req, html, pc, response, fetchCalls, responses,
          lxml, doc, mapping, epc, selected, record,
          sdk, apiKey, envModel, opc, tried, errors, oout>>

fetchVars == <<net, fpc, attempts, slept, fout>>
boundaryVars == <<req, html, pc, response, fetchCalls, responses>>
extractVars == <<lxml, doc, mapping, epc, selected, record>>
oracleVars == <<sdk, apiKey, envModel, opc, tried, errors, oout>>

----------------------------------------------------------------------------
(* Optional values and Python truthiness *)

None == <<>>
Some(v) == <<v>>
\* `not x` for x an Optional[str]: None and the empty string are falsy
Truthy(o) == o # None /\ o[1] # <<>>

Max(a, b) == IF a >= b THEN a ELSE b
Min(a, b) == IF a <= b THEN a ELSE b

\* the least and the greatest member of a non-empty set of integers
First(S) == CHOOSE i \in S : \A j \in S : i <= j
Last(S) == CHOOSE i \in S : \A j \in S : j <= i

----------------------------------------------------------------------------
(* str operations *)

WhiteSpace == {" ", "\t", "\n"}

UpperOf == [c \in {"I", "O", "S", "A", "P"} |->
              CASE c = "I" -> "i" [] c = "O" -> "o" [] c = "S" -> "s"
                [] c = "A" -> "a" [] c = "P" -> "p"]

\* str.lower()
Lower(t) == [i \in 1..Len(t) |-> IF t[i] \in DOMAIN UpperOf THEN UpperOf[t[i]] ELSE t[i]]

\* str.strip()
Strip(t) ==
    LET keep == {i \in 1..Len(t) : t[i] \notin WhiteSpace}
    IN IF keep = {} THEN <<>>
       ELSE SubSeq(t, First(keep), Last(keep))

\* whether p occurs in t at the 0-based offset i
OccursAt(t, p, i) ==
    /\ i >= 0
    /\ i + Len(p) <= Len(t)
    /\ \A k \in 1..Len(p) : t[i + k] = p[k]

\* str.find(p): the least 0-based offset of p in t, -1 when there is none
Find(t, p) ==
    LET hits == {i \in 0..Len(t) : OccursAt(t, p, i)}
    IN IF hits = {} THEN -1 ELSE First(hits)

\* `p in t`
Contains(t, p) == Find(t, p) >= 0

\* t[a:b] with Python's treatment of negative and out-of-range indices
PySlice(t, a, b) ==
    LET n == Len(t)
        lo == IF a < 0 THEN Max(0, n + a) ELSE Min(a, n)
        hi == IF b < 0 THEN Max(0, n + b) ELSE Min(b, n)
    IN SubSeq(t, lo + 1, hi)

RECURSIVE Join(_, _)
\* sep.join(parts)
Join(parts, sep) ==
    IF parts = <<>> THEN <<>>
    ELSE IF Len(parts) = 1 THEN parts[1]
    ELSE parts[1] \o sep \o Join(Tail(parts), sep)

\* the number of consecutive characters of t, from the 1-based position i, in S
RunLen(t, i, S) ==
    LET stops == {j \in i..Len(t) : t[j] \notin S}
    IN IF i > Len(t) THEN 0
       ELSE IF stops = {} THEN Len(t) - i + 1
       ELSE First(stops) - i

----------------------------------------------------------------------------
(* The regular expressions of src/extractor.py lines 19-20 *)

Digits == {"0", "1", "2", "3", "4", "5", "6", "7", "8", "9"}

\* the character class [\d{1,3},]: a digit, a brace or a comma
NumClass == Digits \cup {"{", "}", ","}

\* the alternatives of group 1 of CURRENCY_RE, in order: "$", the three
\* characters U+00E2 U+201A U+00AC, the two characters U+00C2 U+00A3, and
\* U+20B9
CurrencySymbols ==
    << <<"$">>, <<"U+00E2", "U+201A", "U+00AC">>, <<"U+00C2", "U+00A3">>, <<"U+20B9">> >>

\* the fraction (\.\d+)? after a match of \d+ ending at position e: the
\* position of the last character matched
WithFraction(t, e) ==
    IF e + 2 <= Len(t) /\ t[e + 1] = "." /\ t[e + 2] \in Digits
    THEN e + 1 + RunLen(t, e + 2, Digits)
    ELSE e

\* [\d{1,3},]*\d+ at position i, the class* having run characters to take:
\* it is greedy and gives back until \d+ can start, so \d+ starts at the last
\* digit the class* could reach
NumberEnd(t, i, run) ==
    LET ks == {k \in 0..run : i + k <= Len(t) /\ t[i + k] \in Digits}
    IN IF ks = {} THEN 0
       ELSE WithFraction(t, i + Last(ks) + RunLen(t, i + Last(ks), Digits) - 1)

\* [\d{1,3},]*\d+(\.\d+)? matched at the 1-based position i: the position of
\* the last character matched, 0 when there is no match
MatchNumberAt(t, i) == NumberEnd(t, i, RunLen(t, i, NumClass))

NoMatch == [found |-> FALSE, start |-> 0, end |-> 0, g0 |-> <<>>, g1 |-> <<>>]

\* the leftmost match, ends[i] being where a match starting at i ends
LeftmostNumber(t, ends) ==
    LET starts == {i \in 1..Len(t) : ends[i] > 0}
    IN IF starts = {} THEN NoMatch
       ELSE [found |-> TRUE, start |-> First(starts), end |-> ends[First(starts)],
             g0 |-> SubSeq(t, First(starts), ends[First(starts)]), g1 |-> <<>>]

\* NUMBER_RE.search(t)
NUMBER_RE_search(t) == LeftmostNumber(t, [i \in 1..Len(t) |-> MatchNumberAt(t, i)])

\* a if the first way of matching succeeded (a > 0), else the second, b
OrElse(a, b) == IF a > 0 THEN a ELSE b

\* CURRENCY_RE matched at position i with the alternative sym: the position
\* of the last character matched, 0 when there is no match. \s? takes a
\* white space first and is tried empty when the number does not match after
\* it
MatchCurrencyAt(t, i, sym) ==
    IF ~OccursAt(t, sym, i - 1) THEN 0
    ELSE IF i + Len(sym) <= Len(t) /\ t[i + Len(sym)] \in WhiteSpace
         THEN OrElse(MatchNumberAt(t, i + Len(sym) + 1), MatchNumberAt(t, i + Len(sym)))
         ELSE MatchNumberAt(t, i + Len(sym))

\* the leftmost match, by the first alternative that matches there;
\* ends[<<i, a>>] is where a match at i by alternative a ends
LeftmostCurrency(t, ends) ==
    LET hits == {p \in DOMAIN ends : ends[p] > 0}
    IN IF hits = {} THEN NoMatch
       ELSE LET p == CHOOSE x \in hits :
                        \A y \in hits : x[1] < y[1] \/ (x[1] = y[1] /\ x[2] <= y[2])
            IN [found |-> TRUE, start |-> p[1], end |-> ends[p],
                g0 |-> SubSeq(t, p[1], ends[p]), g1 |-> CurrencySymbols[p[2]]]

\* CURRENCY_RE.search(t): group(0) is g0 and group(1) is g1
CURRENCY_RE_search(t) ==
    LeftmostCurrency(t, [p \in (1..Len(t)) \X (1..Len(CurrencySymbols)) |->
                            MatchCurrencyAt(t, p[1], CurrencySymbols[p[2]])])

\* str.replace(",", "")
RemoveCommas(t) == SelectSeq(t, LAMBDA c : c # ",")

DigitValue(c) ==
    CASE c = "0" -> 0 [] c = "1" -> 1 [] c = "2" -> 2 [] c = "3" -> 3 [] c = "4" -> 4
      [] c = "5" -> 5 [] c = "6" -> 6 [] c = "7" -> 7 [] c = "8" -> 8 [] c = "9" -> 9

RECURSIVE NatValue(_)
NatValue(ds) ==
    IF ds = <<>> THEN 0
    ELSE 10 * NatValue(SubSeq(ds, 1, Len(ds) - 1)) + DigitValue(ds[Len(ds)])

RECURSIVE Reduce(_, _)
\* the decimal m / 10^e without trailing zeros in its fraction
Reduce(m, e) == IF e > 0 /\ m % 10 = 0 THEN Reduce(m \div 10, e - 1) ELSE <<m, e>>

\* float(s) for s a match of NUMBER_RE without its commas: ValueError when a
\* brace is left in s, and else the decimal value <<m, e>>, read m / 10^e
float(s) ==
    IF \E i \in 1..Len(s) : s[i] \notin Digits \cup {"."}
    THEN [ok |-> FALSE, value |-> <<0, 0>>]
    ELSE [ok |-> TRUE,
          value |-> Reduce(NatValue(SelectSeq(s, LAMBDA c : c # ".")),
                           IF Contains(s, <<".">>) THEN Len(s) - Find(s, <<".">>) - 1 ELSE 0)]

\* raw.get(k)
DictGet(d, k) == IF k \in DOMAIN d THEN d[k] ELSE None

\* lines 136-139: the amount of a match of NUMBER_RE; the bare except leaves
\* it None when float raises
AmountOf(parsed) == IF parsed.ok THEN Some(parsed.value) ELSE None

\* lines 131-139 on a price text that is not empty
PriceParts(m, num_m) ==
    [currency |-> IF m.found THEN Some(m.g1) ELSE None,
     amount |-> IF num_m.found THEN AmountOf(float(RemoveCommas(num_m.g0))) ELSE None]

\* lines 128-139: currency and amount of raw["price"]
ParsePrice(price_raw) ==
    IF Truthy(price_raw)
    THEN PriceParts(CURRENCY_RE_search(price_raw[1]), NUMBER_RE_search(price_raw[1]))
    ELSE [currency |-> None, amount |-> None]

\* lines 140-149: the record returned
NormalizedRecord(raw, price_raw, parts, t) ==
    [title |-> DictGet(raw, "title"),
     price |-> [raw |-> price_raw, amount |-> parts.amount, currency |-> parts.currency],
     availability |-> DictGet(raw, "availability"),
     extraction_timestamp |-> t]

\* normalize_fields(raw), stamped at the instant t
normalize_fields(raw, t) ==
    NormalizedRecord(raw, DictGet(raw, "price"), ParsePrice(DictGet(raw, "price")), t)

----------------------------------------------------------------------------
(* Parsed documents (BeautifulSoup).  An element has a tag name, the tokens *)
(* of its class attribute (none: no class attribute), its id, property,    *)
(* name and content attributes (None: no such attribute) and its strings:  *)
(* its text nodes in document order (the cells of a table, the items of a  *)
(* list).  rows and items give the structure of a table and of a list.     *)

Element(tag, cls, id, strings) ==
    [tag |-> tag, cls |-> cls, id |-> id, property |-> None, name |-> None,
     content |-> None, strings |-> strings, rows |-> <<>>, items |-> <<>>]

Meta(property, name, content) ==
    [tag |-> <<"m", "e", "t", "a">>, cls |-> <<>>, id |-> None, property |-> property,
     name |-> name, content |-> content, strings |-> <<>>, rows |-> <<>>, items |-> <<>>]

RECURSIVE Flatten(_)
Flatten(ss) == IF ss = <<>> THEN <<>> ELSE Head(ss) \o Flatten(Tail(ss))

Table(rows) ==
    [tag |-> <<"t", "a", "b", "l", "e">>, cls |-> <<>>, id |-> None, property |-> None,
     name |-> None, content |-> None, strings |-> Flatten(rows), rows |-> rows,
     items |-> <<>>]

UList(items) ==
    [tag |-> <<"u", "l">>, cls |-> <<>>, id |-> None, property |-> None,
     name |-> None, content |-> None, strings |-> items, rows |-> <<>>,
     items |-> items]

\* the strings of a document, in document order
DocStrings(d) == Flatten([i \in 1..Len(d) |-> d[i].strings])

\* get_text(" ", strip=True) over a sequence of strings: each stripped, the
\* empty ones dropped, joined by one space
GetTextStripped(strings) ==
    Join(SelectSeq([i \in 1..Len(strings) |-> Strip(strings[i])],
                   LAMBDA x : x # <<>>),
         <<" ">>)

\* tag.text: the strings as they are, concatenated
TagText(e) == Flatten(e.strings)

\* soup.find(...): the first element among those at the positions hits, None
\* when there is none
FindFirst(d, hits) == IF hits = {} THEN None ELSE Some(d[First(hits)])

\* soup.find(tag), soup.title
TagNamed(d, tag) == FindFirst(d, {i \in 1..Len(d) : d[i].tag = tag})

----------------------------------------------------------------------------
(* Heuristic inference, src/extractor.py lines 58-109 *)

MetaTitleTags(d) ==
    << FindFirst(d, {i \in 1..Len(d) :
                        d[i].tag = <<"m", "e", "t", "a">> /\ d[i].property = Some("og:title")}),
       FindFirst(d, {i \in 1..Len(d) :
                        d[i].tag = <<"m", "e", "t", "a">> /\ d[i].name = Some("twitter:title")}) >>

\* lines 59-64, the loop over the two meta tags: `if tag and
\* tag.get("content")` tests the content as it is, and the return strips it
MetaTitle(tags) ==
    LET hits == {i \in 1..Len(tags) : tags[i] # None /\ Truthy(tags[i][1].content)}
    IN IF hits = {} THEN None
       ELSE Some(Strip(tags[First(hits)][1].content[1]))

HeadingTags == << <<"h", "1">>, <<"h", "2">>, <<"h", "3">> >>

\* tag.text.strip() of a tag that was found, the empty text of one that was not
StrippedText(tag) == IF tag = None THEN <<>> ELSE Strip(TagText(tag[1]))

\* lines 69-72, texts being the stripped texts of the first h1, h2 and h3
HeadingTitle(texts) ==
    LET hs == {i \in 1..Len(texts) : texts[i] # <<>>}
    IN IF hs = {} THEN None ELSE Some(texts[First(hs)])

\* lines 59-73, from the three candidates
FirstTitle(meta, title, heading) ==
    IF meta # None THEN meta
    ELSE IF title # <<>> THEN Some(title)
    ELSE heading

infer_title(d) ==
    FirstTitle(MetaTitle(MetaTitleTags(d)),
               StrippedText(TagNamed(d, <<"t", "i", "t", "l", "e">>)),
               HeadingTitle([i \in 1..Len(HeadingTags) |->
                                StrippedText(TagNamed(d, HeadingTags[i]))]))

PriceKeywords ==
    { <<"p", "r", "i", "c", "e">>, <<"a", "m", "o", "u", "n", "t">>, <<"c", "o", "s", "t">>,
      <<"s", "a", "l", "e">>, <<"o", "u", "r", "-", "p", "r", "i", "c", "e">> }

has_price_keyword(s) == \E k \in PriceKeywords : Contains(Lower(s), k)

\* one scan of infer_price: the group(0) of the first element, among those
\* at the positions cands, whose text matches CURRENCY_RE; ms[i] is the
\* search of the text of element i
PriceScan(cands, ms) ==
    LET hits == {i \in cands : ms[i].found}
    IN IF hits = {} THEN None ELSE Some(ms[First(hits)].g0)

\* lines 80-100, from the two scans and the search of the whole text
FirstPrice(byClass, byId, m) ==
    IF byClass # None THEN byClass
    ELSE IF byId # None THEN byId
    ELSE IF m.found THEN Some(m.g0)
    ELSE None

\* CURRENCY_RE.search(tag.get_text(" ", strip=True)) for every element
ElementSearches(d) ==
    [i \in 1..Len(d) |-> CURRENCY_RE_search(GetTextStripped(d[i].strings))]

InferPriceFrom(d, ms) ==
    FirstPrice(
        PriceScan({i \in 1..Len(d) :
                      d[i].cls # <<>> /\ has_price_keyword(Join(d[i].cls, <<" ">>))}, ms),
        PriceScan({i \in 1..Len(d) : d[i].id # None /\ has_price_keyword(d[i].id[1])}, ms),
        CURRENCY_RE_search(GetTextStripped(DocStrings(d))))

\* infer_price searching the texts for NUMBER_RE
infer_price_AnyNumber(d) ==
    InferPriceFrom(d, [i \in 1..Len(d) |-> NUMBER_RE_search(GetTextStripped(d[i].strings))])

infer_price(d) == InferPriceFrom(d, ElementSearches(d))

AvailabilityPhrases ==
    << <<"i", "n", " ", "s", "t", "o", "c", "k">>,
       <<"o", "u", "t", " ", "o", "f", " ", "s", "t", "o", "c", "k">>,
       <<"a", "v", "a", "i", "l", "a", "b", "l", "e">>,
       <<"p", "r", "e", "-", "o", "r", "d", "e", "r">>,
       <<"p", "r", "e", "o", "r", "d", "e", "r">> >>

WindowBefore == 30
WindowAfter == 50

\* the start of the slice without max(0, ...)
WindowStart_Unclamped(idx) == idx - WindowBefore

\* the start of the slice of line 108
WindowStart(idx) == Max(0, idx - WindowBefore)

\* line 108: text[max(0, idx - 30): idx + 50].strip()
Window(text, idx) == Strip(PySlice(text, WindowStart(idx), idx + WindowAfter))

\* the phrases of the list that occur in the text, by their place in the list
PhrasesIn(text) == {i \in 1..Len(AvailabilityPhrases) : Contains(text, AvailabilityPhrases[i])}

\* lines 105-109 on the lower-cased text, hits being the phrases in it
AvailabilityIn(text, hits) ==
    IF hits = {} THEN None
    ELSE Some(Window(text, Find(text, AvailabilityPhrases[First(hits)])))

\* line 104
LowerText(d) == Lower(GetTextStripped(DocStrings(d)))

infer_availability(d) == AvailabilityIn(LowerText(d), PhrasesIn(LowerText(d)))

----------------------------------------------------------------------------
(* Selector application, src/extractor.py lines 112-123 *)

\* A dict as a function; the empty dict
EmptyDict == [k \in {} |-> None]

\* d[k] = v
DictSet(d, k, v) == [x \in DOMAIN d \cup {k} |-> IF x = k THEN v ELSE d[x]]

\* characters that are no part of a name in a selector
SelectorPunct == {".", "#", "!", " ", ">", "[", "]"}

IsName(t) == t # <<>> /\ \A i \in 1..Len(t) : t[i] \notin SelectorPunct

\* soup.select_one(selector): ".name" selects by class token, "#name" by id,
\* "name" by tag; any other text is a syntax error, which select_one raises
select_one(d, selector) ==
    LET rest == Tail(selector)
    IN IF selector[1] = "." /\ IsName(rest)
       THEN [raised |-> FALSE,
             tag |-> FindFirst(d, {i \in 1..Len(d) :
                                     \E c \in 1..Len(d[i].cls) : d[i].cls[c] = rest})]
       ELSE IF selector[1] = "#" /\ IsName(rest)
       THEN [raised |-> FALSE,
             tag |-> FindFirst(d, {i \in 1..Len(d) : d[i].id = Some(rest)})]
       ELSE IF IsName(selector)
       THEN [raised |-> FALSE, tag |-> TagNamed(d, selector)]
       ELSE [raised |-> TRUE, tag |-> None]

\* SelectField without the except clause of lines 121-122
SelectField_NoExcept(d, selector) ==
    IF selector = <<>> THEN [raised |-> FALSE, value |-> None]
    ELSE [raised |-> select_one(d, selector).raised,
          value |-> IF select_one(d, selector).tag # None
                    THEN Some(GetTextStripped(select_one(d, selector).tag[1].strings))
                    ELSE None]

\* the body of the loop of apply_selectors for one selector: the value
\* recorded for the field, and whether an exception leaves the loop
SelectField(d, selector) ==
    IF selector = <<>> THEN [raised |-> FALSE, value |-> None]
    ELSE LET r == select_one(d, selector)
         IN IF r.raised THEN [raised |-> FALSE, value |-> None]
            ELSE [raised |-> FALSE,
                  value |-> IF r.tag # None
                            THEN Some(GetTextStripped(r.tag[1].strings))
                            ELSE None]

RECURSIVE ApplyFrom(_, _, _)
\* the loop of apply_selectors over the pairs of m still to do
ApplyFrom(d, m, results) ==
    IF m = <<>> THEN [raised |-> FALSE, results |-> results]
    ELSE LET r == SelectField(d, Head(m)[2])
         IN IF r.raised THEN [raised |-> TRUE, results |-> results]
            ELSE ApplyFrom(d, Tail(m), DictSet(results, Head(m)[1], r.value))

\* apply_selectors(soup, mapping); a mapping is the sequence of its
\* <<field, selector>> items
apply_selectors(d, m) == ApplyFrom(d, m, EmptyDict)

----------------------------------------------------------------------------
(* extract_from_html, src/extractor.py lines 152-168 *)

\* FallbackField testing `selected.get(field) is None`
FallbackField_IsNone(sel, field, heuristic) ==
    IF DictGet(sel, field) = None THEN DictSet(sel, field, heuristic) ELSE sel

\* `if not selected.get(field): selected[field] = heuristic`
FallbackField(sel, field, heuristic) ==
    IF ~Truthy(DictGet(sel, field)) THEN DictSet(sel, field, heuristic) ELSE sel

\* the three fallbacks, lines 161-166
heuristic_fallback(d, sel) ==
    FallbackField(
        FallbackField(
            FallbackField(sel, "title", infer_title(d)),
            "price", infer_price(d)),
        "availability", infer_availability(d))

\* extract_from_html(html, mapping) at the instant t; parser tells whether
\* BeautifulSoup finds the lxml parser (it raises FeatureNotFound otherwise)
extract_from_html(h, m, t, parser) ==
    IF ~parser THEN [raised |-> TRUE, data |-> EmptyDict]
    ELSE LET sel == apply_selectors(h, m)
         IN IF sel.raised THEN [raised |-> TRUE, data |-> EmptyDict]
            ELSE [raised |-> FALSE,
                  data |-> normalize_fields(heuristic_fallback(h, sel.results), t)]

----------------------------------------------------------------------------
(* Inputs *)

\* the longest document, in elements
MaxElems == 2
\* the instants normalization may happen at are 0..MaxClock
MaxClock == 1
\* the longest raw price text, in characters
MaxPriceLen == 4
\* the most characters before and after the phrase of an availability text
MaxBefore == 31
MaxAfter == 51

Times == 0..MaxClock

ClassPrice == <<"p", "r", "i", "c", "e">>
TagSpan == <<"s", "p", "a", "n">>
IdStock == <<"s", "t", "o", "c", "k">>

Pool ==
    { Meta(Some("og:title"), None, Some(<<" ", " ">>)),
      Meta(Some("og:title"), None, Some(<<" ", "A">>)),
      Meta(None, Some("twitter:title"), Some(<<"B">>)),
      Element(<<"t", "i", "t", "l", "e">>, <<>>, None, << <<"C", " ">> >>),
      Element(TagSpan, <<ClassPrice>>, None, << <<"$", "1">> >>),
      Element(TagSpan, <<ClassPrice>>, None, <<>>),
      Element(TagSpan, <<ClassPrice>>, None, << <<"9">> >>),
      Element(<<"p">>, <<>>, Some(IdStock),
              << <<"I", "n", " ", "s", "t", "o", "c", "k">> >>),
      Table(<< << <<"k">>, <<"v">> >> >>),
      UList(<< <<"a">>, <<"b">> >>) }

SeqsUpTo(S, n) == UNION {[1..k -> S] : k \in 0..n}

Docs == SeqsUpTo(Pool, MaxElems)

Fields == <<"title", "price", "availability">>

\* what a mapping may say of one field: nothing (None), the empty selector,
\* a class selector, an id selector, a selector with a syntax error
SelectorChoices ==
    { None, Some(<<>>), Some(<<".">> \o ClassPrice), Some(<<"#">> \o IdStock),
      Some(<<"!", "!">>) }

\* the items of the mapping that gives field i the choice c[i]
MappingOf(c) ==
    LET idx == SelectSeq(<<1, 2, 3>>, LAMBDA i : c[i] # None)
    IN [k \in 1..Len(idx) |-> <<Fields[idx[k]], c[idx[k]][1]>>]

Mappings == {MappingOf(c) : c \in [1..3 -> SelectorChoices]}

FetchIdle ==
    /\ net = <<>> /\ fpc = "idle" /\ attempts = 0 /\ slept = 0 /\ fout = None

BoundaryIdle ==
    /\ req = [url |-> None, html |-> None, mapping |-> None]
    /\ html = None /\ pc = "idle" /\ response = None
    /\ fetchCalls = 0 /\ responses = 0

OracleIdle ==
    /\ sdk = TRUE /\ apiKey = None /\ envModel = None /\ opc = "idle"
    /\ tried = 0 /\ errors = <<>> /\ oout = None

ExtractIdle ==
    /\ lxml = TRUE /\ doc = <<>> /\ mapping = <<>> /\ epc = "idle"
    /\ selected = EmptyDict /\ record = None

----------------------------------------------------------------------------
(* extract_from_html step by step *)

InitExtract ==
    /\ FetchIdle /\ BoundaryIdle /\ OracleIdle
    /\ lxml \in BOOLEAN
    /\ doc \in Docs
    /\ mapping \in Mappings
    /\ epc = "parse"
    /\ selected = EmptyDict
    /\ record = None

\* line 157: soup = BeautifulSoup(html, "lxml")
Parse ==
    /\ epc = "parse"
    /\ epc' = IF lxml THEN "select" ELSE "parse_raised"
    /\ UNCHANGED <<lxml, doc, mapping, selected, record>>
    /\ UNCHANGED <<fetchVars, boundaryVars, oracleVars>>

\* line 158: selected = apply_selectors(soup, mapping)
ApplySelectors ==
    /\ epc = "select"
    /\ LET r == apply_selectors(doc, mapping)
       IN /\ selected' = r.results
          /\ epc' = IF r.raised THEN "select_raised" ELSE "fallback"
    /\ UNCHANGED <<lxml, doc, mapping, record>>
    /\ UNCHANGED <<fetchVars, boundaryVars, oracleVars>>

\* lines 161-166
Fallback ==
    /\ epc = "fallback"
    /\ selected' = heuristic_fallback(doc, selected)
    /\ epc' = "normalize"
    /\ UNCHANGED <<lxml, doc, mapping, record>>
    /\ UNCHANGED <<fetchVars, boundaryVars, oracleVars>>

\* line 168: return normalize_fields(selected)
Normalize ==
    /\ epc = "normalize"
    /\ \E t \in Times : record' = Some(normalize_fields(selected, t))
    /\ epc' = "done"
    /\ UNCHANGED <<lxml, doc, mapping, selected>>
    /\ UNCHANGED <<fetchVars, boundaryVars, oracleVars>>

NextExtract == Parse \/ ApplySelectors \/ Fallback \/ Normalize

SpecExtract == InitExtract /\ [][NextExtract]_vars

----------------------------------------------------------------------------
(* Properties of selector application and of the fallback *)

\* the selector the mapping gives the field, None when it gives none
SelectorOf(m, field) ==
    LET hits == {i \in 1..Len(m) : m[i][1] = field}
    IN IF hits = {} THEN None ELSE Some(m[First(hits)][2])

\* the selector of the field finds no element: the field is not in the
\* mapping, its selector is empty, has a syntax error, or matches nothing
SelectorAbsent(d, m, field) ==
    LET s == SelectorOf(m, field)
    IN \/ s = None
       \/ s[1] = <<>>
       \/ select_one(d, s[1]).raised
       \/ select_one(d, s[1]).tag = None

\* the visible text of the first element the selector of the field matches
SelectorText(d, m, field) ==
    GetTextStripped(select_one(d, SelectorOf(m, field)[1]).tag[1].strings)

HeuristicOf(d, field) ==
    CASE field = "title" -> infer_title(d)
      [] field = "price" -> infer_price(d)
      [] field = "availability" -> infer_availability(d)

FieldSet == {Fields[i] : i \in 1..Len(Fields)}

\* C3: apply_selectors never raises; it returns a value for every field of
\* the mapping, None for a field whose selector is empty, has a syntax error
\* or matches no element, and the visible text of the first match for every
\* other field, whatever happened to the fields before it.
C3_SelectorsFailSoft ==
    /\ epc # "select_raised"
    /\ epc = "fallback" =>
          /\ DOMAIN selected = {mapping[i][1] : i \in 1..Len(mapping)}
          /\ \A f \in DOMAIN selected :
                selected[f] = IF SelectorAbsent(doc, mapping, f) THEN None
                              ELSE Some(SelectorText(doc, mapping, f))

\* a selector with a syntax error for the title and, after it, a selector
\* that matched a text for the availability
C3_Witness ==
    /\ epc = "fallback"
    /\ SelectorOf(mapping, "title") = Some(<<"!", "!">>)
    /\ selected["title"] = None
    /\ SelectorOf(mapping, "availability") = Some(<<"#">> \o IdStock)
    /\ selected["availability"] = Some(<<"I", "n", " ", "s", "t", "o", "c", "k">>)

\* C2 as stated: after the fallback each of title, price and availability is
\* the heuristic's result if and only if the selector left the field absent
\* (not in the mapping, empty selector, no element matched, selector error),
\* and is the selector's text otherwise.
C2_HeuristicIffAbsent ==
    epc \in {"normalize", "done"} =>
        \A f \in FieldSet :
            selected[f] = IF SelectorAbsent(doc, mapping, f) THEN HeuristicOf(doc, f)
                          ELSE Some(SelectorText(doc, mapping, f))

\* C2 as amended: the heuristic's result is used if and only if the selector
\* left the field absent or matched an element with no visible text; a
\* selector's text that is not empty is kept.
C2_HeuristicIffAbsentOrEmpty ==
    epc \in {"normalize", "done"} =>
        \A f \in FieldSet :
            selected[f] = IF \/ SelectorAbsent(doc, mapping, f)
                             \/ SelectorText(doc, mapping, f) = <<>>
                          THEN HeuristicOf(doc, f)
                          ELSE Some(SelectorText(doc, mapping, f))

\* the title's selector matched nothing and the heuristic gave the title;
\* the availability's selector matched a text the heuristic would not have
\* given, and it was kept
C2_Witness ==
    /\ epc = "done"
    /\ SelectorOf(mapping, "title") = Some(<<".">> \o ClassPrice)
    /\ select_one(doc, <<".">> \o ClassPrice).tag = None
    /\ selected["title"] = Some(<<"C">>)
    /\ ~SelectorAbsent(doc, mapping, "availability")
    /\ HeuristicOf(doc, "availability") # Some(SelectorText(doc, mapping, "availability"))
    /\ selected["availability"] = Some(SelectorText(doc, mapping, "availability"))

----------------------------------------------------------------------------
(* Properties of the heuristics and of the record *)

\* tag.get("content") of the first meta tag of each kind, the text of the
\* title element and of the first h1, h2 and h3: the candidates of the
\* title in the order of the rules, each stripped, the missing ones empty
TitleCandidates(d) ==
    [i \in 1..2 |-> IF MetaTitleTags(d)[i] = None \/ MetaTitleTags(d)[i][1].content = None
                    THEN <<>>
                    ELSE Strip(MetaTitleTags(d)[i][1].content[1])]
    \o << StrippedText(TagNamed(d, <<"t", "i", "t", "l", "e">>)) >>
    \o [i \in 1..Len(HeadingTags) |-> StrippedText(TagNamed(d, HeadingTags[i]))]

\* the first candidate that is not empty, None when all are
FirstNonEmpty(cands) ==
    LET hits == {i \in 1..Len(cands) : cands[i] # <<>>}
    IN IF hits = {} THEN None ELSE Some(cands[First(hits)])

\* C7: the title the heuristic infers is the trimmed text of the first
\* candidate, in the order og:title, twitter:title, title, h1, h2, h3, that
\* is not empty after trimming; it is never the empty string, and it is
\* absent only when every candidate is missing or empty.
C7_FirstNonEmptyTitle ==
    (epc \in {"normalize", "done"} /\ SelectorOf(mapping, "title") = None) =>
        /\ selected["title"] = FirstNonEmpty(TitleCandidates(doc))
        /\ selected["title"] # Some(<<>>)

\* the two-cell rows of all the tables of the document, in document order
TwoCellRows(d) ==
    SelectSeq(Flatten([i \in 1..Len(d) |-> d[i].rows]), LAMBDA r : Len(r) = 2)

\* the items of the first list with at least two items that are not empty
\* after stripping, at most 10 of them; none when there is no such list
ListItems(d) ==
    LET items == [i \in 1..Len(d) |->
                     SelectSeq([k \in 1..Len(d[i].items) |-> Strip(d[i].items[k])],
                               LAMBDA x : x # <<>>)]
        hits == {i \in 1..Len(d) : Len(items[i]) >= 2}
    IN IF hits = {} THEN <<>> ELSE SubSeq(items[First(hits)], 1, Min(10, Len(items[First(hits)])))

DigitChars == <<"1", "2", "3", "4", "5", "6", "7", "8", "9">>

\* the label Spec_i, i in 1..10
SpecLabel(i) ==
    <<"S", "p", "e", "c", "_">> \o (IF i = 10 THEN <<"1", "0">> ELSE <<DigitChars[i]>>)

\* the specs the specification asks for: the pairs of the tables, a later
\* pair replacing an earlier one with its label; without any, the items of
\* the first qualifying list; without any, the empty mapping
SpecsOf(rows, items) ==
    IF rows # <<>>
    THEN [l \in {rows[i][1] : i \in 1..Len(rows)} |->
             rows[Last({i \in 1..Len(rows) : rows[i][1] = l})][2]]
    ELSE [l \in {SpecLabel(i) : i \in 1..Len(items)} |->
             items[CHOOSE i \in 1..Len(items) : SpecLabel(i) = l]]

\* C4: every record carries a specs mapping that is never null: the pairs of
\* the two-cell rows of all tables if there are any, else the items of the
\* first list with at least 2 items labelled Spec_1..Spec_N, else empty.
C4_SpecsNeverNull ==
    epc = "done" =>
        /\ "specs" \in DOMAIN record[1]
        /\ record[1].specs = SpecsOf(TwoCellRows(doc), ListItems(doc))

----------------------------------------------------------------------------
(* extract_from_html on every short price text: the document is one element *)
(* of class "price" holding the text, which the mapping selects or leaves   *)
(* to the heuristic                                                        *)

PriceAlphabet == {"$", "U+20AC", "1", ",", ".", " ", "{"}

PriceTexts == SeqsUpTo(PriceAlphabet, MaxPriceLen)

InitPrice ==
    /\ FetchIdle /\ BoundaryIdle /\ OracleIdle
    /\ lxml = TRUE
    /\ \E t \in PriceTexts : doc = << Element(TagSpan, <<ClassPrice>>, None, <<t>>) >>
    /\ mapping \in { <<>>, << <<"price", <<".">> \o ClassPrice>> >> }
    /\ epc = "parse"
    /\ selected = EmptyDict
    /\ record = None

SpecPrice == InitPrice /\ [][NextExtract]_vars

\* the currency symbols the specification lists: $, U+20AC, U+00A3, U+20B9
ListedSymbols == {"$", "U+20AC", "U+00A3", "U+20B9"}

\* a listed symbol followed by an optional space and a digit
ListedCurrencyPattern(t) ==
    \E i \in 1..Len(t) :
        /\ t[i] \in ListedSymbols
        /\ \/ i + 1 <= Len(t) /\ t[i + 1] \in Digits
           \/ i + 2 <= Len(t) /\ t[i + 1] \in WhiteSpace /\ t[i + 2] \in Digits

\* sym ends right before position i of t, or right before one space before it
Precedes(t, sym, i) ==
    \/ OccursAt(t, sym, i - 1 - Len(sym))
    \/ i >= 2 /\ t[i - 1] = " " /\ OccursAt(t, sym, i - 2 - Len(sym))

\* C5: in every record the amount is present only if a numeric run was found
\* in price.raw, and the currency is present only if a currency symbol
\* stands right before (optionally with one space) the numeric run that was
\* parsed into the amount.
C5_PriceInvariant ==
    epc = "done" =>
        LET price == record[1].price
        IN /\ price.amount # None =>
                 price.raw # None /\ NUMBER_RE_search(price.raw[1]).found
           /\ price.currency # None =>
                 /\ price.amount # None
                 /\ Precedes(price.raw[1], price.currency[1],
                             NUMBER_RE_search(price.raw[1]).start)

PriceAbsent(price) == price.raw = None /\ price.amount = None /\ price.currency = None

----------------------------------------------------------------------------
(* extract_from_html on long texts: the document is one paragraph, a middle *)
(* part with up to MaxBefore characters before it and MaxAfter after it     *)

\* n characters of filling: all "x", all spaces, or "x" and space in turn
Fill(n, kind) ==
    [i \in 1..n |-> CASE kind = "x" -> "x"
                      [] kind = " " -> " "
                      [] kind = "mix" -> IF i % 2 = 1 THEN "x" ELSE " "]

Middles ==
    { <<"I", "n", " ", "s", "t", "o", "c", "k">>,
      <<"o", "u", "t", " ", "o", "f", " ", "s", "t", "o", "c", "k">>,
      <<"p", "r", "e", "o", "r", "d", "e", "r", " ", "A", "v", "a", "i", "l", "a", "b", "l", "e">>,
      <<"p", "r", "e", "-", "o", "r", "d", "e", "r">>,
      <<"s", "o", "l", "d">> }

AvailTexts ==
    { Fill(a, k) \o m \o Fill(b, k) :
        a \in 0..MaxBefore, b \in 0..MaxAfter, k \in {"x", " ", "mix"}, m \in Middles }

InitAvail ==
    /\ FetchIdle /\ BoundaryIdle /\ OracleIdle
    /\ lxml = TRUE
    /\ \E t \in AvailTexts : doc = << Element(<<"p">>, <<>>, None, <<t>>) >>
    /\ mapping = <<>>
    /\ epc = "parse"
    /\ selected = EmptyDict
    /\ record = None

SpecAvail == InitAvail /\ [][NextExtract]_vars

\* C8: infer_availability returns nothing exactly when no phrase of the list
\* occurs in the lower-cased text; the window it returns otherwise contains
\* the whole phrase matched (the first of the list that occurs) and is at
\* most 80 characters longer than it.
C8_AvailabilityWindow ==
    epc \in {"normalize", "done"} =>
        LET text == LowerText(doc)
            out == selected["availability"]
        IN /\ out = None <=> PhrasesIn(text) = {}
           /\ out # None =>
                 /\ Contains(out[1], AvailabilityPhrases[First(PhrasesIn(text))])
                 /\ Len(out[1]) <= Len(AvailabilityPhrases[First(PhrasesIn(text))]) + 80

\* the phrase is the whole text: at its very start and at its very end
C8_Witness ==
    /\ epc = "done"
    /\ LowerText(doc) = AvailabilityPhrases[1]
    /\ selected["availability"] = Some(AvailabilityPhrases[1])

----------------------------------------------------------------------------
(* fetch_html, src/extractor.py lines 23-31 *)

\* the most GET attempts the server's script describes
Retries == 3

\* what one GET meets: a response (its status, final URL and body) or a
\* transport error
Outcomes ==
    { [kind |-> "response", status |-> 200, url |-> <<"u">>, text |-> <<>>],
      [kind |-> "response", status |-> 200, url |-> <<"v">>,
       text |-> << Element(<<"t", "i", "t", "l", "e">>, <<>>, None, << <<"C", " ">> >>) >>],
      [kind |-> "response", status |-> 404, url |-> <<"u">>, text |-> <<>>],
      [kind |-> "response", status |-> 500, url |-> <<"u">>, text |-> <<>>],
      [kind |-> "ConnectionError", status |-> 0, url |-> <<>>, text |-> <<>>],
      [kind |-> "Timeout", status |-> 0, url |-> <<>>, text |-> <<>>] }

\* line 29: requests.get raises a transport error or returns the response
requests_get(o) ==
    IF o.kind = "response"
    THEN [raised |-> FALSE, error |-> "", r |-> Some(o)]
    ELSE [raised |-> TRUE, error |-> o.kind, r |-> None]

\* lines 30-31: r.raise_for_status(); return r.url, r.text
raise_for_status(r) ==
    IF r.status >= 400
    THEN [raised |-> TRUE, error |-> "HTTPError", value |-> None]
    ELSE [raised |-> FALSE, error |-> "", value |-> Some(<<r.url, r.text>>)]

\* fetch_html(url) when its GET meets o
fetch_html(o) ==
    IF requests_get(o).raised
    THEN [raised |-> TRUE, error |-> requests_get(o).error, value |-> None]
    ELSE raise_for_status(requests_get(o).r[1])

InitFetch ==
    /\ BoundaryIdle /\ OracleIdle /\ ExtractIdle
    /\ net \in [1..Retries -> Outcomes]
    /\ fpc = "call"
    /\ attempts = 0
    /\ slept = 0
    /\ fout = None

\* line 29
Get ==
    /\ fpc = "call"
    /\ attempts' = attempts + 1
    /\ LET g == requests_get(net[attempts + 1])
       IN IF g.raised
          THEN /\ fpc' = "raised"
               /\ fout' = Some([raised |-> TRUE, error |-> g.error, value |-> None])
          ELSE /\ fpc' = "got"
               /\ fout' = Some([raised |-> FALSE, error |-> "", value |-> g.r])
    /\ UNCHANGED <<net, slept>>
    /\ UNCHANGED <<boundaryVars, extractVars, oracleVars>>

\* lines 30-31
Return ==
    /\ fpc = "got"
    /\ LET res == raise_for_status(fout[1].value[1])
       IN /\ fpc' = IF res.raised THEN "raised" ELSE "returned"
          /\ fout' = Some(res)
    /\ UNCHANGED <<net, attempts, slept>>
    /\ UNCHANGED <<boundaryVars, extractVars, oracleVars>>

NextFetch == Get \/ Return

SpecFetch == InitFetch /\ [][NextFetch]_vars

Succeeds(o) == o.kind = "response" /\ o.status < 400

ErrorOf(o) == IF o.kind = "response" THEN "HTTPError" ELSE o.kind

\* 1 + 2 + ... + n
SumTo(n) == (n * (n + 1)) \div 2

\* C1: with retries = Retries, fetch tries the URL until an attempt succeeds
\* or Retries attempts failed, sleeping backoff * k after failed attempt k
\* when another attempt follows (slept counts in units of backoff); it
\* returns the final URL and body of the first success, and surfaces the
\* error of the last attempt, without a result, when all fail.
C1_RetriesUntilBudget ==
    fpc \in {"returned", "raised"} =>
        LET oks == {k \in 1..Retries : Succeeds(net[k])}
        IN IF oks # {}
           THEN /\ fpc = "returned"
                /\ attempts = First(oks)
                /\ slept = SumTo(First(oks) - 1)
                /\ fout[1].value = Some(<<net[First(oks)].url, net[First(oks)].text>>)
           ELSE /\ fpc = "raised"
                /\ attempts = Retries
                /\ slept = SumTo(Retries - 1)
                /\ fout[1].error = ErrorOf(net[Retries])
                /\ fout[1].value = None

----------------------------------------------------------------------------
(* extract, src/main.py lines 16-27 *)

\* the html a request may carry: no html, the empty string (the empty
\* document) or a document of one element
RequestHtmls == {None} \cup {Some(d) : d \in SeqsUpTo(Pool, 1)}

RequestUrls == {None, Some(<<>>), Some(<<"u">>)}

RequestMappings == {None} \cup {Some(m) : m \in Mappings}

\* line 20: if req.url and not html
NeedsFetch_UrlOnly(url, h) == Truthy(url)

NeedsFetch(url, h) == Truthy(url) /\ ~Truthy(h)

\* line 24: req.mapping or {}
MappingOrEmpty(m) == IF m = None THEN <<>> ELSE m[1]

ErrorResponse(msg) == [status |-> "error", message |-> msg, data |-> EmptyDict]

OkResponse(data) == [status |-> "ok", message |-> "", data |-> data]

NoHtmlMessage == "No HTML or URL provided"

Init ==
    /\ FetchIdle /\ OracleIdle
    /\ doc = <<>> /\ mapping = <<>> /\ epc = "idle"
    /\ selected = EmptyDict /\ record = None
    /\ lxml \in BOOLEAN
    /\ req \in [url : RequestUrls, html : RequestHtmls, mapping : RequestMappings]
    /\ html = None
    /\ pc = "start"
    /\ response = None
    /\ fetchCalls = 0
    /\ responses = 0

\* line 19: html = req.html
ReadHtml ==
    /\ pc = "start"
    /\ html' = req.html
    /\ pc' = "check_url"
    /\ UNCHANGED <<req, response, fetchCalls, responses>>
    /\ UNCHANGED <<fetchVars, extractVars, oracleVars>>

\* lines 20-21 with the handler of lines 26-27: final_url, html =
\* fetch_html(req.url), the GET meeting any outcome
FetchHtml ==
    /\ pc = "check_url"
    /\ NeedsFetch(req.url, html)
    /\ fetchCalls' = fetchCalls + 1
    /\ \E o \in Outcomes :
          LET f == fetch_html(o)
          IN IF f.raised
             THEN /\ response' = Some(ErrorResponse(f.error))
                  /\ responses' = responses + 1
                  /\ pc' = "done"
                  /\ html' = html
             ELSE /\ html' = Some(f.value[1][2])
                  /\ pc' = "check_html"
                  /\ UNCHANGED <<response, responses>>
    /\ UNCHANGED req
    /\ UNCHANGED <<fetchVars, extractVars, oracleVars>>

\* line 20, condition false
SkipFetch ==
    /\ pc = "check_url"
    /\ ~NeedsFetch(req.url, html)
    /\ pc' = "check_html"
    /\ UNCHANGED <<req, html, response, fetchCalls, responses>>
    /\ UNCHANGED <<fetchVars, extractVars, oracleVars>>

\* lines 22-23: if not html: return the error
NoHtml ==
    /\ pc = "check_html"
    /\ ~Truthy(html)
    /\ response' = Some(ErrorResponse(NoHtmlMessage))
    /\ responses' = responses + 1
    /\ pc' = "done"
    /\ UNCHANGED <<req, html, fetchCalls>>
    /\ UNCHANGED <<fetchVars, extractVars, oracleVars>>

\* lines 24-25 with the handler of lines 26-27
ExtractData ==
    /\ pc = "check_html"
    /\ Truthy(html)
    /\ \E t \in Times :
          LET e == extract_from_html(html[1], MappingOrEmpty(req.mapping), t, lxml)
          IN response' = IF e.raised
                         THEN Some(ErrorResponse("Exception"))
                         ELSE Some(OkResponse(e.data))
    /\ responses' = responses + 1
    /\ pc' = "done"
    /\ UNCHANGED <<req, html, fetchCalls>>
    /\ UNCHANGED <<fetchVars, extractVars, oracleVars>>

Next == ReadHtml \/ FetchHtml \/ SkipFetch \/ NoHtml \/ ExtractData

Spec == Init /\ [][Next]_vars

\* the responses extraction of h under the request's mapping can produce
ExtractedFrom(h) ==
    {extract_from_html(h, MappingOrEmpty(req.mapping), t, lxml) : t \in Times}

ResponseOf(e) ==
    IF e.raised THEN "error" ELSE "ok"

\* every finished request has answered once, in one of the two shapes,
\* "ok" exactly when extraction ran on some html and did not raise
OneResponse ==
    /\ responses <= 1
    /\ pc # "done" => responses = 0 /\ response = None
    /\ pc = "done" =>
          /\ responses = 1
          /\ response # None
          /\ response[1].status \in {"ok", "error"}
          /\ response[1].status = "error" => response[1].data = EmptyDict
          /\ response[1].status = "ok" => Truthy(html) /\ lxml
          /\ ~Truthy(html) => response[1].status = "error"

\* C10 (as stated): a request that carries html never invokes the fetcher and
\* its record is extracted from that html whatever the url; the fetcher runs
\* at most once and only when html is absent and a url is given; a request
\* that ends without html answers "error"; every request ends in exactly one
\* response, "ok" with data or "error" with a message.
C10_HtmlPrecedence ==
    /\ OneResponse
    /\ fetchCalls <= 1
    /\ req.html # None => fetchCalls = 0
    /\ fetchCalls = 1 => req.html = None /\ req.url # None
    /\ pc = "done" /\ req.html # None =>
          \E e \in ExtractedFrom(req.html[1]) :
             /\ response[1].status = ResponseOf(e)
             /\ response[1].data = e.data

\* C10 (amended): a request that carries non-empty html never invokes the
\* fetcher and its record is extracted from that html whatever the url; the
\* fetcher runs at most once and only when html is absent or the empty
\* string and a non-empty url is given; a request that ends without html
\* answers "error"; every request ends in exactly one response.
C10_NonEmptyHtmlPrecedence ==
    /\ OneResponse
    /\ fetchCalls <= 1
    /\ Truthy(req.html) => fetchCalls = 0
    /\ fetchCalls = 1 => ~Truthy(req.html) /\ Truthy(req.url)
    /\ pc = "done" /\ Truthy(req.html) =>
          \E e \in ExtractedFrom(req.html[1]) :
             /\ response[1].status = ResponseOf(e)
             /\ response[1].data = e.data

\* a request with both html and a url answered "ok" without a fetch
C10_Witness ==
    /\ pc = "done"
    /\ Truthy(req.html)
    /\ Truthy(req.url)
    /\ fetchCalls = 0
    /\ response[1].status = "ok"

----------------------------------------------------------------------------
(* llm_infer_selectors, src/extractor.py lines 191-259 *)

\* the longest reply of a model, in tokens
MaxReplyLen == 2

\* the fence of three backquotes, with and without the word json after it
FenceJson == "<fence>json"
Fence == "<fence>"
\* stands for the text of the JSON object with the one key price and the
\* value .price, quotes left out
ObjectText == "{price: .price}"
ArrayText == "[]"

\* the pieces a reply is made of: the two fences, the text of a JSON object,
\* the text of a JSON array, text that is not JSON, white space
ReplyTokens == {FenceJson, Fence, ObjectText, ArrayText, "x", " "}

\* what generate_content meets: an error of the SDK (network, auth, quota)
\* or a response with a text
Replies ==
    {[raises |-> "GoogleAPIError", text |-> <<>>]}
        \cup {[raises |-> "", text |-> t] : t \in SeqsUpTo(ReplyTokens, MaxReplyLen)}

HardcodedModels ==
    <<"gemini-1.5-flash-latest", "gemini-1.5-flash", "gemini-1.5-flash-001",
      "gemini-1.0-pro", "gemini-pro">>

\* lines 213-220, env being GEMINI_MODEL
preferred_models(env) ==
    (IF env # None /\ env[1] # "" THEN <<env[1]>> ELSE <<>>) \o HardcodedModels

\* text.split(sep, 1)[1] where seps are the positions sep occurs at
AfterFirst(text, seps) == SubSeq(text, First(seps) + 1, Len(text))

\* text.split(fence, 1)[0]: the json fence begins with the fence as well
BeforeFence(text) ==
    LET seps == {i \in 1..Len(text) : text[i] \in {Fence, FenceJson}}
    IN IF seps = {} THEN text ELSE SubSeq(text, 1, First(seps) - 1)

\* lines 232-236
Unfence(text) ==
    LET js == {i \in 1..Len(text) : text[i] = FenceJson}
        fs == {i \in 1..Len(text) : text[i] = Fence}
    IN IF js # {} THEN BeforeFence(AfterFirst(text, js))
       ELSE IF fs # {} THEN BeforeFence(AfterFirst(text, fs))
       ELSE text

Failed(msg) == [error |-> msg, parsed |-> None]

\* the mapping the object text denotes
ObjectValue == << <<"price", <<".">> \o ClassPrice>> >>

\* line 241: json.loads(text), body being text without the white space
\* around it; line 242: only a dict is returned
json_loads(body) ==
    IF Len(body) = 1 /\ body[1] = ObjectText
    THEN [error |-> "", parsed |-> Some(ObjectValue)]
    ELSE IF Len(body) = 1 /\ body[1] = ArrayText
    THEN [error |-> "", parsed |-> None]
    ELSE Failed("JSONDecodeError")

\* lines 238-241
ParseReply(text) ==
    IF text = <<>> THEN Failed("empty response") ELSE json_loads(Strip(text))

\* lines 226-244 for one model: the error the handler of line 245 records,
\* or the parsed dict
Attempt(reply) ==
    IF reply.raises # "" THEN Failed(reply.raises)
    ELSE ParseReply(Unfence(Strip(reply.text)))

Returned(m) == Some([raised |-> FALSE, error |-> "", value |-> m])

InitOracle ==
    /\ FetchIdle /\ BoundaryIdle /\ ExtractIdle
    /\ sdk \in BOOLEAN
    /\ apiKey \in {None, Some(<<>>), Some(<<"k">>)}
    /\ envModel \in {None, Some(""), Some("gemini-2.0-flash")}
    /\ opc = "import"
    /\ tried = 0
    /\ errors = EmptyDict
    /\ oout = None

\* line 196: import google.generativeai, in no try block
Import ==
    /\ opc = "import"
    /\ IF sdk
       THEN opc' = "check_key" /\ oout' = oout
       ELSE /\ opc' = "raised"
            /\ oout' = Some([raised |-> TRUE, error |-> "ImportError", value |-> <<>>])
    /\ UNCHANGED <<sdk, apiKey, envModel, tried, errors>>
    /\ UNCHANGED <<fetchVars, boundaryVars, extractVars>>

\* lines 198-200
CheckKey ==
    /\ opc = "check_key"
    /\ IF Truthy(apiKey)
       THEN opc' = "loop" /\ oout' = oout
       ELSE opc' = "returned" /\ oout' = Returned(<<>>)
    /\ UNCHANGED <<sdk, apiKey, envModel, tried, errors>>
    /\ UNCHANGED <<fetchVars, boundaryVars, extractVars>>

\* lines 224-247: one turn of the loop
TryModel ==
    /\ opc = "loop"
    /\ tried < Len(preferred_models(envModel))
    /\ tried' = tried + 1
    /\ \E reply \in Replies :
          LET a == Attempt(reply)
              name == preferred_models(envModel)[tried + 1]
          IN IF a.error # ""
             THEN /\ errors' = DictSet(errors, name, a.error)
                  /\ UNCHANGED <<opc, oout>>
             ELSE IF a.parsed # None
             THEN /\ opc' = "returned"
                  /\ oout' = Returned(a.parsed[1])
                  /\ UNCHANGED errors
             ELSE UNCHANGED <<opc, oout, errors>>
    /\ UNCHANGED <<sdk, apiKey, envModel>>
    /\ UNCHANGED <<fetchVars, boundaryVars, extractVars>>

\* lines 249-259: every model tried
Exhausted ==
    /\ opc = "loop"
    /\ tried = Len(preferred_models(envModel))
    /\ opc' = "returned"
    /\ oout' = Returned(<<>>)
    /\ UNCHANGED <<sdk, apiKey, envModel, tried, errors>>
    /\ UNCHANGED <<fetchVars, boundaryVars, extractVars>>

NextOracle == Import \/ CheckKey \/ TryModel \/ Exhausted

SpecOracle == InitOracle /\ [][NextOracle]_vars

\* C9: the oracle never raises past its boundary; with the credential
\* missing, or every candidate model failed, it returns the empty mapping;
\* the models are tried in list order and the first JSON object ends the
\* loop and is the mapping returned.
C9_OracleFailsSoft ==
    /\ opc # "raised"
    /\ opc = "returned" => /\ oout # None
                           /\ ~oout[1].raised
                           /\ oout[1].value \in {<<>>, ObjectValue}
    /\ opc = "returned" /\ ~Truthy(apiKey) => oout[1].value = <<>> /\ tried = 0
    /\ opc = "returned" /\ oout[1].value = ObjectValue =>
          tried \in 1..Len(preferred_models(envModel))
    /\ opc = "returned" /\ Truthy(apiKey) /\ oout[1].value = <<>> =>
          tried = Len(preferred_models(envModel))
    /\ opc = "loop" => oout = None

====
